---- MODULE Spec2Model ----
(***************************************************************************)
(* Model of packages/ciphernode/core/src/main.rs: the parameter table of   *)
(* gen_params and the async orchestrator generate_and_save_key, run by one *)
(* or several tasks that share the scheme parameters.                      *)
(*                                                                         *)
(* The fhe and rand crates are opaque to this source file.  The randomness *)
(* source is modelled symbolically: the word at position p of the stream   *)
(* seeded with s is the pair <<s, p>>, so sampling is a deterministic      *)
(* function of the parameters and the consumed words, and words at         *)
(* different positions are different.                                      *)
(***************************************************************************)
EXTENDS Integers, Sequences, FiniteSets, TLC

\* ---- bounds ----
NumInv == 2        \* concurrent invocations (tasks)
MaxCalls == 2      \* calls of generate_and_save_key per randomness source
MaxPending == 1    \* times the save future may report Pending
SampleWords == 2   \* words of randomness one key sampling consumes

\* ---- program constants ----
NumVotes == 1000
Degree == 2048
Moduli == <<"0x3FFFFFFF000001">>
SecretKeyName == "secret_key"

Invs == 1..NumInv
Seeds == {42, 7}
Errors == {"E1", "E2"}
Ok == "Ok"
Outcomes == {Ok} \cup Errors
Shapes == {"inline", "object", "keyedmap"}
KeyNames == {SecretKeyName, "other"}
PopSizes == {0, 1, 500, 999, 1000, 5000, 9999, 10000, 99999, 100000, 199999,
             200000, 299999, 300000, 399999, 400000, 499999, 500000, 599999,
             600000, 699999, 700000, 799999, 800000, 899999, 900000, 950000,
             2000000}

VARIABLES num_votes, params, built, panicked, active, seed, task

vars == <<num_votes, params, built, panicked, active, seed, task>>

NoParams == [degree |-> 0, moduli |-> <<>>, plaintext_modulus |-> 0]
NoKey == [par |-> NoParams, coeffs |-> <<>>]

\* ---- gen_params ----
\* faulty variant of PlaintextModulus: two arms end one size too late
PlaintextModulusOffByOne(n) ==
  IF n >= 1 /\ n <= 1000 THEN 1009
  ELSE IF n >= 1001 /\ n <= 9999 THEN 10007
  ELSE IF n >= 10000 /\ n <= 99999 THEN 100003
  ELSE IF n >= 100000 /\ n <= 199999 THEN 200003
  ELSE IF n >= 200000 /\ n <= 299999 THEN 300007
  ELSE IF n >= 300000 /\ n <= 399999 THEN 400009
  ELSE IF n >= 400000 /\ n <= 499999 THEN 500009
  ELSE IF n >= 500000 /\ n <= 599999 THEN 600011
  ELSE IF n >= 600000 /\ n <= 699999 THEN 700001
  ELSE IF n >= 700000 /\ n <= 799999 THEN 800011
  ELSE IF n >= 800000 /\ n <= 900000 THEN 900001
  ELSE 1032193

\* the match on num_votes: arms are tried in order, `_` is the catch-all
PlaintextModulus(n) ==
  IF n >= 1 /\ n <= 999 THEN 1009
  ELSE IF n >= 1000 /\ n <= 9999 THEN 10007
  ELSE IF n >= 10000 /\ n <= 99999 THEN 100003
  ELSE IF n >= 100000 /\ n <= 199999 THEN 200003
  ELSE IF n >= 200000 /\ n <= 299999 THEN 300007
  ELSE IF n >= 300000 /\ n <= 399999 THEN 400009
  ELSE IF n >= 400000 /\ n <= 499999 THEN 500009
  ELSE IF n >= 500000 /\ n <= 599999 THEN 600011
  ELSE IF n >= 600000 /\ n <= 699999 THEN 700001
  ELSE IF n >= 700000 /\ n <= 799999 THEN 800011
  ELSE IF n >= 800000 /\ n <= 899999 THEN 900001
  ELSE 1032193

\* what the builder is given: set_degree, set_plaintext_modulus, set_moduli
BuilderInput(n) ==
  [degree |-> Degree, moduli |-> Moduli, plaintext_modulus |-> PlaintextModulus(n)]

\* gen_params(): build_arc() answers Ok or Err; unwrap() panics on Err.
Resolve(accepted) ==
  /\ built = "none"
  /\ ~panicked
  /\ built' = IF accepted THEN "Ok" ELSE "Err"
  /\ params' = IF accepted THEN BuilderInput(num_votes) ELSE params
  /\ panicked' = ~accepted
  /\ UNCHANGED <<num_votes, active, seed, task>>

\* ---- randomness source and key sampling ----
\* ChaCha8Rng::seed_from_u64(s): a fresh stream at position 0
Seeded(s) == [seed |-> s, pos |-> 0]

\* the n words a source at state r yields next
Draw(r, n) == [w \in 1..n |-> <<r.seed, r.pos + w - 1>>]

\* SecretKey::random(params, rng): the key, and the source after the call
SecretKeyRandom(par, r) ==
  [key |-> [par |-> par, coeffs |-> Draw(r, SampleWords)],
   rng |-> [r EXCEPT !.pos = @ + SampleWords]]

\* ---- persistence capability: three shapes over one store ----
EmptyStore == [items |-> <<>>, map |-> [k \in KeyNames |-> NoKey], ops |-> 0]

\* the caller's closure: results.push(sk); Ok(())
InlineSave(st, item) == [st EXCEPT !.items = Append(@, item), !.ops = @ + 1]

\* object shape: accept one item
ObjectAccept(st, item) == [st EXCEPT !.items = Append(@, item), !.ops = @ + 1]

\* keyed map shape: set(key, value) and get(key)
MapSet(st, k, v) == [st EXCEPT !.map[k] = v, !.ops = @ + 1]
MapGet(st, k) == st.map[k]

\* faulty variant of PersistVia: the keyed map is written under another key
PersistViaWrongKey(shape, st, item) ==
  IF shape = "inline" THEN InlineSave(st, item)
  ELSE IF shape = "object" THEN ObjectAccept(st, item)
  ELSE MapSet(st, "other", item)

\* the thin adapter from each shape to accept-one-item
PersistVia(shape, st, item) ==
  IF shape = "inline" THEN InlineSave(st, item)
  ELSE IF shape = "object" THEN ObjectAccept(st, item)
  ELSE MapSet(st, SecretKeyName, item)

\* what a reader of the storage finds
StoredMaterial(shape, st) ==
  IF shape = "keyedmap"
  THEN IF MapGet(st, SecretKeyName) = NoKey THEN {} ELSE {MapGet(st, SecretKeyName)}
  ELSE {st.items[x] : x \in 1..Len(st.items)}

\* ---- generate_and_save_key ----
IdleTask(s, n) ==
  [pc |-> "idle", left |-> n, rng |-> Seeded(s), rng0 |-> Seeded(s), sk_share |-> NoKey,
   fut |-> NoKey, shape |-> "inline", store |-> EmptyStore,
   samples |-> 0, saveCalls |-> 0, awaits |-> 0, polls |-> 0,
   sampled |-> NoKey, received |-> <<>>, persisted |-> "none",
   result |-> "none", calls |-> 0, lost |-> {}]

\* the caller invokes generate_and_save_key(&params, save, &mut rng) with a
\* save of shape s over a fresh store; the future is created, not yet run
Call(i, s) ==
  /\ i \in active
  /\ built = "Ok"
  /\ task[i].pc \in {"idle", "done"}
  /\ task[i].left > 0
  /\ task' = [task EXCEPT ![i] =
       [@ EXCEPT !.pc = "start", !.rng0 = task[i].rng, !.sk_share = NoKey,
                 !.fut = NoKey, !.shape = s, !.store = EmptyStore,
                 !.samples = 0, !.saveCalls = 0, !.awaits = 0, !.polls = 0,
                 !.sampled = NoKey, !.received = <<>>, !.persisted = "none",
                 !.result = "none", !.calls = @ + 1, !.left = @ - 1,
                 !.lost = IF task[i].result \in Errors
                          THEN @ \cup {task[i].sampled} ELSE @]]
  /\ UNCHANGED <<num_votes, params, built, panicked, active, seed>>

\* faulty variant of Sample: samples twice and keeps the second key
SampleTwice(i) ==
  /\ i \in active
  /\ task[i].pc = "start"
  /\ LET r1 == SecretKeyRandom(params, task[i].rng)
         r2 == SecretKeyRandom(params, r1.rng)
     IN task' = [task EXCEPT ![i] =
          [@ EXCEPT !.pc = "sampled", !.sk_share = r2.key, !.sampled = r2.key,
                    !.rng = r2.rng, !.samples = @ + 2]]
  /\ UNCHANGED <<num_votes, params, built, panicked, active, seed>>

\* faulty variant of Sample: discards one word of the source first
SampleSkipWord(i) ==
  /\ i \in active
  /\ task[i].pc = "start"
  /\ LET r == SecretKeyRandom(params, [task[i].rng EXCEPT !.pos = @ + 1])
     IN task' = [task EXCEPT ![i] =
          [@ EXCEPT !.pc = "sampled", !.sk_share = r.key, !.sampled = r.key,
                    !.rng = r.rng, !.samples = @ + 1]]
  /\ UNCHANGED <<num_votes, params, built, panicked, active, seed>>

\* faulty variant of Sample: samples from a copy, the source is not advanced
SampleFromCopy(i) ==
  /\ i \in active
  /\ task[i].pc = "start"
  /\ LET r == SecretKeyRandom(params, task[i].rng)
     IN task' = [task EXCEPT ![i] =
          [@ EXCEPT !.pc = "sampled", !.sk_share = r.key, !.sampled = r.key,
                    !.samples = @ + 1]]
  /\ UNCHANGED <<num_votes, params, built, panicked, active, seed>>

\* faulty variant of Sample: every task draws from the source of task 1
SampleShared(i) ==
  /\ i \in active
  /\ task[i].pc = "start"
  /\ LET r == SecretKeyRandom(params, task[1].rng)
     IN task' = [j \in Invs |->
          IF j = i
          THEN [task[j] EXCEPT !.pc = "sampled", !.sk_share = r.key,
                               !.sampled = r.key, !.samples = @ + 1,
                               !.rng = IF i = 1 THEN r.rng ELSE @]
          ELSE IF j = 1 THEN [task[j] EXCEPT !.rng = r.rng]
          ELSE task[j]]
  /\ UNCHANGED <<num_votes, params, built, panicked, active, seed>>

\* let sk_share: SecretKey = SecretKey::random(params, rng);
Sample(i) ==
  /\ i \in active
  /\ task[i].pc = "start"
  /\ LET r == SecretKeyRandom(params, task[i].rng)
     IN task' = [task EXCEPT ![i] =
          [@ EXCEPT !.pc = "sampled", !.sk_share = r.key, !.sampled = r.key,
                    !.rng = r.rng, !.samples = @ + 1]]
  /\ UNCHANGED <<num_votes, params, built, panicked, active, seed>>

\* faulty variant of CallSave: the orchestrator keeps a clone of the key
CallSaveKeepCopy(i) ==
  /\ i \in active
  /\ task[i].pc = "sampled"
  /\ task' = [task EXCEPT ![i] =
       [@ EXCEPT !.pc = "awaiting", !.fut = task[i].sk_share,
                 !.received = Append(@, task[i].sk_share),
                 !.saveCalls = @ + 1, !.awaits = @ + 1]]
  /\ UNCHANGED <<num_votes, params, built, panicked, active, seed>>

\* save(sk_share): the key moves into the capability's future, and the
\* orchestrator reaches its only await point
CallSave(i) ==
  /\ i \in active
  /\ task[i].pc = "sampled"
  /\ task' = [task EXCEPT ![i] =
       [@ EXCEPT !.pc = "awaiting", !.fut = task[i].sk_share,
                 !.sk_share = NoKey,
                 !.received = Append(@, task[i].sk_share),
                 !.saveCalls = @ + 1, !.awaits = @ + 1]]
  /\ UNCHANGED <<num_votes, params, built, panicked, active, seed>>

\* .await while the future is Pending: the orchestrator stays suspended
PollPending(i) ==
  /\ i \in active
  /\ task[i].pc = "awaiting"
  /\ task[i].polls < MaxPending
  /\ task' = [task EXCEPT ![i] = [@ EXCEPT !.polls = @ + 1]]
  /\ UNCHANGED <<num_votes, params, built, panicked, active, seed>>

\* faulty variant of Propagate: the error is dropped
PropagateSwallow(o) == Ok

\* faulty variant of Propagate: every error is replaced by one fixed error
PropagateGeneric(o) == IF o = Ok THEN Ok ELSE "E1"

\* `?` on Result<(), Box<dyn Error>>: Err(e) returns Err(From::from(e)), and
\* From<T> for T gives e back; Ok(()) falls through to the final Ok(())
Propagate(o) == IF o = Ok THEN Ok ELSE o

\* faulty variant of PollReady: a failed save is attempted a second time
PollReadyRetry(i, o) ==
  /\ i \in active
  /\ task[i].pc = "awaiting"
  /\ IF o \in Errors /\ task[i].saveCalls < 2
     THEN task' = [task EXCEPT ![i] =
            [@ EXCEPT !.persisted = o,
                      !.received = Append(@, task[i].fut),
                      !.saveCalls = @ + 1]]
     ELSE task' = [task EXCEPT ![i] =
            [@ EXCEPT !.pc = "done", !.persisted = o, !.fut = NoKey,
                      !.store = IF o = Ok
                                THEN PersistVia(task[i].shape, @, task[i].fut)
                                ELSE @,
                      !.result = Propagate(o)]]
  /\ UNCHANGED <<num_votes, params, built, panicked, active, seed>>

\* the save future completes with outcome o: on Ok the key is in the store,
\* on Err the key is dropped; then `?` and the return
PollReady(i, o) ==
  /\ i \in active
  /\ task[i].pc = "awaiting"
  /\ task' = [task EXCEPT ![i] =
       [@ EXCEPT !.pc = "done", !.persisted = o, !.fut = NoKey,
                 !.store = IF o = Ok
                           THEN PersistVia(task[i].shape, @, task[i].fut)
                           ELSE @,
                 !.result = Propagate(o)]]
  /\ UNCHANGED <<num_votes, params, built, panicked, active, seed>>

\* ---- specifications ----
\* one caller that reuses its randomness source for up to MaxCalls calls,
\* for any population size
Init ==
  /\ num_votes \in PopSizes
  /\ params = NoParams
  /\ built = "none"
  /\ panicked = FALSE
  /\ active = {1}
  /\ seed \in [Invs -> Seeds]
  /\ task = [i \in Invs |-> IdleTask(seed[i], MaxCalls)]

\* NumInv concurrent callers, one call each, each with its own randomness
\* source and capability, sharing the parameters of the source's num_votes
InitConc ==
  /\ num_votes = NumVotes
  /\ params = NoParams
  /\ built = "none"
  /\ panicked = FALSE
  /\ active = Invs
  /\ seed \in [Invs -> Seeds]
  /\ task = [i \in Invs |-> IdleTask(seed[i], 1)]

Next ==
  \/ \E accepted \in BOOLEAN : Resolve(accepted)
  \/ \E i \in Invs, s \in Shapes : Call(i, s)
  \/ \E i \in Invs : Sample(i)
  \/ \E i \in Invs : CallSave(i)
  \/ \E i \in Invs : PollPending(i)
  \/ \E i \in Invs, o \in Outcomes : PollReady(i, o)

Spec == Init /\ [][Next]_vars

SpecConc == InitConc /\ [][Next]_vars

TypeOK ==
  /\ num_votes \in PopSizes
  /\ built \in {"none", "Ok", "Err"}
  /\ panicked \in BOOLEAN
  /\ active \subseteq Invs
  /\ seed \in [Invs -> Seeds]
  /\ \A i \in Invs :
       /\ task[i].pc \in {"idle", "start", "sampled", "awaiting", "done"}
       /\ task[i].shape \in Shapes
       /\ task[i].persisted \in {"none"} \cup Outcomes
       /\ task[i].result \in {"none"} \cup Outcomes
       /\ task[i].calls \in 0..MaxCalls
       /\ task[i].left \in 0..MaxCalls

\* ---- claims ----
Persisting(i) == task[i].pc \in {"awaiting", "done"}

\* C1: a successful generate has sampled once, invoked the capability once,
\* with the key it sampled from the source as it was at the call, and that
\* key is what the store holds after one store operation
C1_ExactlyOnce ==
  \A i \in active :
    /\ task[i].samples <= 1
    /\ task[i].saveCalls <= 1
    /\ (task[i].pc = "done" /\ task[i].result = Ok) =>
         /\ task[i].samples = 1
         /\ task[i].saveCalls = 1
         /\ task[i].received = <<task[i].sampled>>
         /\ task[i].sampled = SecretKeyRandom(params, task[i].rng0).key
         /\ task[i].store.ops = 1
         /\ StoredMaterial(task[i].shape, task[i].store) = {task[i].sampled}

C1_Witness ==
  \E i \in active :
    /\ task[i].pc = "done"
    /\ task[i].result = Ok
    /\ task[i].saveCalls = 1
    /\ task[i].store.ops = 1

\* C2: once the capability has failed, generate has returned an error and
\* the invocation does nothing more: one capability call, one sampling,
\* nothing stored, and no later step of that invocation
C2_FailedState ==
  \A i \in active :
    task[i].persisted \in Errors =>
      /\ task[i].pc = "done"
      /\ task[i].result \in Errors
      /\ task[i].saveCalls = 1
      /\ task[i].samples = 1
      /\ Len(task[i].received) = 1
      /\ task[i].store = EmptyStore
      /\ task[i].fut = NoKey

C2_FailedStep ==
  \A i \in active :
    (task[i].persisted \in Errors /\ task'[i].calls = task[i].calls) =>
      task'[i] = task[i]

C2_NoRetry == [](C2_FailedState) /\ [][C2_FailedStep]_vars

C2_Witness ==
  \E i \in active :
    /\ task[i].pc = "done"
    /\ task[i].persisted \in Errors
    /\ task[i].result \in Errors

\* C3: generate's result is the outcome of its persistence call: nothing is
\* returned before the capability answers, Ok only for Ok, and an error is
\* the capability's own error
C3_SameOutcome ==
  \A i \in active :
    /\ task[i].pc = "done" =>
         /\ task[i].persisted \in Outcomes
         /\ task[i].result = task[i].persisted
    /\ task[i].pc # "done" => task[i].result = "none"
    /\ task[i].result = Ok => task[i].persisted = Ok

C3_Witness ==
  \E i \in active :
    /\ task[i].pc = "done"
    /\ task[i].persisted = "E2"
    /\ task[i].result = "E2"

\* C4: the key handed to the capability by a generate run on a freshly
\* seeded source equals the key sampled independently from the same
\* parameters and a fresh source with that seed, and two runs from the same
\* randomness state hand over equal keys
C4_Reproducible ==
  /\ \A i \in active :
       (Len(task[i].received) >= 1 /\ task[i].rng0 = Seeded(seed[i])) =>
         task[i].received[1] = SecretKeyRandom(params, Seeded(seed[i])).key
  /\ \A i, j \in active :
       (/\ Len(task[i].received) >= 1
        /\ Len(task[j].received) >= 1
        /\ task[i].rng0 = task[j].rng0) =>
         task[i].received = task[j].received

C4_Witness ==
  \E i, j \in active :
    /\ i # j
    /\ seed[i] = seed[j]
    /\ task[i].pc = "done"
    /\ task[j].pc = "done"
    /\ task[i].result = Ok
    /\ task[i].received = <<SecretKeyRandom(params, Seeded(seed[i])).key>>
    /\ task[j].received = task[i].received

\* C5: every population size >= 1 lies in exactly one band of the table and
\* the parameters carry that band's plaintext modulus (hi = -1: no upper end)
Bands ==
  { [lo |-> 1, hi |-> 999, modulus |-> 1009],
    [lo |-> 1000, hi |-> 9999, modulus |-> 10007],
    [lo |-> 10000, hi |-> 99999, modulus |-> 100003],
    [lo |-> 100000, hi |-> 199999, modulus |-> 200003],
    [lo |-> 200000, hi |-> 299999, modulus |-> 300007],
    [lo |-> 300000, hi |-> 399999, modulus |-> 400009],
    [lo |-> 400000, hi |-> 499999, modulus |-> 500009],
    [lo |-> 500000, hi |-> 599999, modulus |-> 600011],
    [lo |-> 600000, hi |-> 699999, modulus |-> 700001],
    [lo |-> 700000, hi |-> 799999, modulus |-> 800011],
    [lo |-> 800000, hi |-> 899999, modulus |-> 900001],
    [lo |-> 900000, hi |-> -1, modulus |-> 1032193] }

InBand(n, b) == b.lo <= n /\ (b.hi = -1 \/ n <= b.hi)

C5_BandTotality ==
  (built = "Ok" /\ num_votes >= 1) =>
    /\ Cardinality({b \in Bands : InBand(num_votes, b)}) = 1
    /\ \A b \in Bands :
         InBand(num_votes, b) => params.plaintext_modulus = b.modulus
    /\ num_votes = 500 => params.plaintext_modulus = 1009
    /\ num_votes = 5000 => params.plaintext_modulus = 10007
    /\ num_votes = 950000 => params.plaintext_modulus = 1032193

C5_Witness ==
  /\ built = "Ok"
  /\ num_votes = 900000
  /\ params.plaintext_modulus = 1032193

\* C6: within one invocation the key is sampled before the capability is
\* called, the orchestrator reaches an await once and is suspended only
\* there, and the key has one owner: the orchestrator, then the capability
Holders(i) ==
  {h \in {"orchestrator", "future", "store"} :
     \/ h = "orchestrator" /\ task[i].sk_share # NoKey
     \/ h = "future" /\ task[i].fut # NoKey
     \/ h = "store" /\ StoredMaterial(task[i].shape, task[i].store) # {}}

C7_ExplicitError == built = "Err" => ~panicked

\* C8: runs of generate that differ only in the shape of the capability
\* (same seed, same call, same storage outcome) leave the same stored key
\* material, the same number of store operations and the same result
Observable(i) ==
  [stored |-> StoredMaterial(task[i].shape, task[i].store),
   ops |-> task[i].store.ops,
   calls |-> task[i].saveCalls,
   result |-> task[i].result]

C8_ShapeEquivalence ==
  \A i, j \in active :
    (/\ task[i].pc = "done"
     /\ task[j].pc = "done"
     /\ task[i].rng0 = task[j].rng0
     /\ task[i].persisted = task[j].persisted) =>
      Observable(i) = Observable(j)

C8_Witness ==
  \E i, j \in active :
    /\ task[i].pc = "done"
    /\ task[j].pc = "done"
    /\ task[i].shape = "keyedmap"
    /\ task[j].shape \in {"inline", "object"}
    /\ task[i].rng0 = task[j].rng0
    /\ task[i].persisted = Ok
    /\ task[j].persisted = Ok
    /\ Observable(i).stored # {}

\* C9: under every interleaving of concurrent invocations the shared
\* parameters stay as built, and each invocation hands over and stores the
\* key its own source determines, the one it would produce running alone
KeyAlone(i) ==
  SecretKeyRandom(BuilderInput(num_votes),
                  [seed |-> seed[i], pos |-> (task[i].calls - 1) * SampleWords]).key

C9_OwnKey ==
  \A i \in active :
    /\ Len(task[i].received) >= 1 => task[i].received[1] = KeyAlone(i)
    /\ task[i].result = Ok =>
         StoredMaterial(task[i].shape, task[i].store) = {KeyAlone(i)}

C9_ParamsFrozen ==
  built = "Ok" => (params' = params /\ params = BuilderInput(num_votes))

C9_NoInterference == [](C9_OwnKey) /\ [][C9_ParamsFrozen]_vars

C9_Witness ==
  \E i, j \in active :
    /\ seed[i] # seed[j]
    /\ task[i].pc = "awaiting"
    /\ task[j].pc = "awaiting"
    /\ task[i].received = <<KeyAlone(i)>>
    /\ task[j].received = <<KeyAlone(j)>>

\* C10: by the time persistence begins the source has advanced by exactly
\* one key sampling, and it stays so whether persistence succeeds or fails;
\* after a failure the key is held nowhere, and a later generate on the same
\* source samples a key different from every key lost to a failure
C10_NotAtomic ==
  \A i \in active :
    /\ Persisting(i) =>
         task[i].rng = [task[i].rng0 EXCEPT !.pos = @ + SampleWords]
    /\ (task[i].pc = "done" /\ task[i].result \in Errors) =>
         /\ task[i].rng # task[i].rng0
         /\ Holders(i) = {}
    /\ task[i].sampled # NoKey => task[i].sampled \notin task[i].lost

C10_Witness ==
  \E i \in active :
    /\ task[i].lost # {}
    /\ task[i].sampled # NoKey
    /\ task[i].sampled \notin task[i].lost
    /\ task[i].rng.pos = 2 * SampleWords
====
